---------------------------- MODULE Spec2Model ----------------------------
(***************************************************************************)
(* A model of the AI Screen Assistant: the analysis orchestrator of        *)
(* main.py (ScreenAssistantApp), the capture provider of                   *)
(* region_selector.py (RegionSelector) and the bearer-token client of      *)
(* token_auth.py (BedrockTokenClient).                                     *)
(*                                                                         *)
(* Threads: the Tk UI thread runs one handler or one queued callback at a  *)
(* time; worker threads (threading.Thread) run analyze_screen_thread and   *)
(* ai_analysis_thread and post callbacks with root.after.  Text is a       *)
(* sequence of tokens; numbers are formatted digit by digit.               *)
(***************************************************************************)
EXTENDS Integers, Sequences, FiniteSets, TLC

(***************************************************************************)
(* Bounds of the model.                                                    *)
(***************************************************************************)
MaxCycles == 2
MaxRetakes == 1
\* Cycles followed to their end under the fairness conditions.
LiveCycles == 1

\* Python's None where an image is expected, and where a string is expected.
None == [kind |-> "none", w |-> 0, h |-> 0]
Absent == "absent"

(***************************************************************************)
(* Text: str(), f-strings, str.strip() and the substring test.             *)
(***************************************************************************)
DigitChar(d) == <<"0", "1", "2", "3", "4", "5", "6", "7", "8", "9">>[d + 1]

RECURSIVE IntToStr(_)
IntToStr(n) == IF n < 10 THEN <<DigitChar(n)>>
               ELSE IntToStr(n \div 10) \o <<DigitChar(n % 10)>>

IsSpace(c) == c \in {" ", "\n"}

RECURSIVE LStrip(_)
LStrip(s) == IF s # <<>> /\ IsSpace(Head(s)) THEN LStrip(Tail(s)) ELSE s

RECURSIVE RStrip(_)
RStrip(s) == IF s # <<>> /\ IsSpace(s[Len(s)])
             THEN RStrip(SubSeq(s, 1, Len(s) - 1)) ELSE s

Strip(s) == RStrip(LStrip(s))

Contains(s, sub) ==
    \E i \in 1..(Len(s) - Len(sub) + 1) : SubSeq(s, i, i + Len(sub) - 1) = sub

(***************************************************************************)
(* Images are known by their size.                                         *)
(***************************************************************************)
Img(w, h) == [kind |-> "image", w |-> w, h |-> h]
PrimarySize == Img(1366, 768)
AggregateSize == Img(2732, 768)

\* An exception leaving a function, where an image or None is expected.
Raised == [kind |-> "raised", w |-> 0, h |-> 0]

(***************************************************************************)
(* RegionSelector.  The environment of one capture: what the two           *)
(* screencapture commands do, what they leave in the temporary files, how  *)
(* the permission dialog is answered and what mss finds.                   *)
(***************************************************************************)
CmdResults == {"ok", "rc_nonzero", "timeout"}
TestFiles == {"missing", "empty", "image_blank", "image"}
FinalFiles == {"missing", "empty", "image"}
DialogAnswers == {"yes", "no", "error"}
\* sct.monitors by its number of entries (the aggregate entry comes first), or
\* an exception in the with block.
MssResults == {"one_monitor", "two_monitors", "three_monitors", "error"}

CaptureInputs ==
    [test : CmdResults, testFile : TestFiles,
     final : CmdResults, finalFile : FinalFiles,
     dialog : DialogAnswers, mss : MssResults]

\* The result of a capture: the image or None, the temporary files still on
\* disk, and whether Tk objects were created by the calling thread.
Captured(screen, leftover, dialog) ==
    [screen |-> screen, leftover |-> leftover, dialog |-> dialog]

\* _capture_mss always grabbing monitors[0], the aggregate entry.
MssGrabAggregate(in) ==
    IF in.mss = "error" THEN Raised ELSE AggregateSize

\* _capture_mss, the with block: monitors[1] when there is more than one
\* entry, else monitors[0]; mss.mss(), grab and frombytes may raise.
MssGrab(in) ==
    CASE in.mss = "error" -> Raised
      [] in.mss \in {"two_monitors", "three_monitors"} -> PrimarySize
      [] in.mss = "one_monitor" -> AggregateSize

\* _capture_mss without its "except Exception" clause.
CaptureMssNoExcept(in) == MssGrab(in)

\* _capture_mss: every exception gives None.
CaptureMss(in) == IF MssGrab(in) = Raised THEN None ELSE MssGrab(in)

\* _show_permission_dialog: tk.Tk() and messagebox.askyesno on the calling
\* thread; yes -> mss, no -> None, an exception -> mss.
ShowPermissionDialog(in, leftover) ==
    IF in.dialog = "no" THEN Captured(None, leftover, TRUE)
    ELSE Captured(CaptureMss(in), leftover, TRUE)

\* CaptureMacosFinal with an Image.open that accepts an empty file.
CaptureMacosFinalOpensEmpty(in) ==
    IF in.final = "timeout"
    THEN ShowPermissionDialog(in, {"temp_final"})
    ELSE IF in.final = "ok" /\ in.finalFile # "missing"
    THEN IF in.finalFile = "empty"
         THEN Captured(Img(0, 0), {}, FALSE)
         ELSE Captured(PrimarySize, {}, FALSE)
    ELSE Captured(None, {}, FALSE)

\* The second (actual) screencapture of _capture_macos_with_permission_check.
CaptureMacosFinal(in) ==
    IF in.final = "timeout"
    THEN ShowPermissionDialog(in, {"temp_final"})      \* except branch
    ELSE IF in.final = "ok" /\ in.finalFile # "missing"
    THEN IF in.finalFile = "empty"
         THEN ShowPermissionDialog(in, {"temp_final"}) \* Image.open raises
         ELSE Captured(PrimarySize, {}, FALSE)
    ELSE Captured(None, {}, FALSE)

\* _capture_macos_with_permission_check.
CaptureMacos(in) ==
    IF in.test = "timeout"
    THEN ShowPermissionDialog(in, {"temp_test"})       \* except branch
    ELSE IF in.test = "ok" /\ in.testFile # "missing"
    THEN CASE in.testFile = "empty" ->
                ShowPermissionDialog(in, {"temp_test"}) \* Image.open raises
           [] in.testFile = "image_blank" -> ShowPermissionDialog(in, {})
           [] in.testFile = "image" -> CaptureMacosFinal(in)
    ELSE ShowPermissionDialog(in, {})

\* capture_full_screen: platform dispatch.
CaptureFullScreen(platform, in) ==
    IF platform = "darwin" THEN CaptureMacos(in)
    ELSE Captured(CaptureMss(in), {}, FALSE)

\* What the code found when it tested the screencapture command it ran last:
\* a non-zero exit code ("exit"), no output file ("missing"), an output file
\* that Image.open cannot read because it is empty ("empty"), or none of these.
NativeFailure(platform, in) ==
    IF platform # "darwin" \/ in.test = "timeout" THEN "none"
    ELSE IF in.test = "rc_nonzero" THEN "exit"
    ELSE IF in.testFile = "missing" THEN "missing"
    ELSE IF in.testFile = "empty" THEN "empty"
    ELSE IF in.testFile = "image_blank" \/ in.final = "timeout" THEN "none"
    ELSE IF in.final = "rc_nonzero" THEN "exit"
    ELSE IF in.finalFile = "missing" THEN "missing"
    ELSE IF in.finalFile = "empty" THEN "empty"
    ELSE "none"

\* The monitors list _capture_mss found, when the call went through it and
\* the with block did not raise: off macOS always, on macOS after the
\* permission dialog unless it was answered No.
MonitorsListed(platform, in) ==
    IF in.mss # "error"
       /\ \/ platform # "darwin"
          \/ CaptureMacos(in).dialog /\ in.dialog # "no"
    THEN in.mss
    ELSE "none"

\* A call of capture_full_screen: what it returned and what it met.
Observed(o, failure, monitors) ==
    [screen |-> o.screen, leftover |-> o.leftover, dialog |-> o.dialog,
     failure |-> failure, monitors |-> monitors]

OutcomesOn(platform) ==
    {Observed(CaptureFullScreen(platform, in), NativeFailure(platform, in),
              MonitorsListed(platform, in)) :
        in \in CaptureInputs}

\* The outcomes of capture_full_screen on macOS and on the other platforms.
DarwinOutcomes == OutcomesOn("darwin")
OtherOutcomes == OutcomesOn("linux")

CaptureOutcomes(platform) ==
    IF platform = "darwin" THEN DarwinOutcomes ELSE OtherOutcomes


(***************************************************************************)
(* The program's state.                                                    *)
(***************************************************************************)
VARIABLES
    envToken,            \* os.environ.get('AWS_BEARER_TOKEN_BEDROCK')
    boto3Available,      \* BOTO3_AVAILABLE
    system,              \* platform.system().lower()
    mock_mode,           \* self.mock_mode
    bedrock,             \* self.bedrock: Absent (None) or "client"
    using_bearer_token,  \* self.using_bearer_token: Absent (no attribute), "True", "False"
    bedrock_token,       \* self.bedrock_token: Absent (no attribute) or the token
    analyzing,           \* self.analyzing
    current_screenshot,  \* self.current_screenshot
    button_state,        \* analyze_button: "normal" or "disabled"
    status,              \* status_var
    progress_value,      \* progress_var
    results,             \* results_text
    mainVisible,         \* the root window is shown (not withdrawn)
    approval_window,     \* the image of the open approval window, or None
    uiQueue,             \* callbacks posted with root.after, in firing order
    uiPc,                \* where the UI thread is inside a handler
    capPc,               \* the worker running analyze_screen_thread
    capScreen,           \* its local: screen
    aiPc,                \* the worker running ai_analysis_thread
    aiScreen,            \* its argument: screen
    aiSuggestion,        \* its local: suggestion
    cycle,               \* analysis cycles started
    cycleCapture,        \* what the last capture of the current cycle returned
    resets,              \* reset_ui runs
    retakes,             \* Retake answers in the current cycle
    lastCapture,         \* the capture_full_screen call that has just returned
    captureAbsent,       \* a capture of the current cycle returned None
    strategiesUsed,      \* the strategies of the invoke_model calls made so far
    cycleInvokes,        \* invoke_model calls of the current cycle
    cycleFailed,         \* an invoke_model call of the current cycle raised
    cycleMock,           \* what analyze_screen read in self.mock_mode in the current
                         \* cycle: "unread", "True" or "False"
    resultsFresh,        \* update_results ran in the current cycle
    lastCall,            \* what analyze_screen has just done: encoded, or called
    cycleThreads,        \* threading.Thread objects started in the current cycle
    viewer_window,       \* self.viewer_window: None, or the image of the viewer it names
    viewersOpen,         \* ScreenshotViewer windows that exist (not destroyed)
    thumbnail_shown,     \* thumbnail_frame is packed and shows a thumbnail
    test_image,          \* test_thumbnail.py: test_image
    thumbnail,           \* test_thumbnail.py: thumbnail
    new_size,            \* the (new_width, new_height) generate_thumbnail asked for
    stored_image,        \* test_thumbnail.py: stored_image, cleared_image
    testPc               \* test_thumbnail.py: the call made last

configVars == <<envToken, boto3Available, system>>
clientVars == <<mock_mode, bedrock, using_bearer_token, bedrock_token>>
widgetVars == <<button_state, status, progress_value, results, mainVisible,
                approval_window, current_screenshot>>
threadVars == <<uiQueue, uiPc, capPc, capScreen, aiPc, aiScreen, aiSuggestion>>
observerVars == <<cycle, cycleCapture, resets, retakes, lastCapture, captureAbsent, strategiesUsed,
                  cycleInvokes, cycleFailed, cycleMock, resultsFresh, lastCall,
                  cycleThreads>>
viewerVars == <<viewer_window, viewersOpen, thumbnail_shown>>
testVars == <<test_image, thumbnail, new_size, stored_image, testPc>>
vars == <<configVars, clientVars, widgetVars, threadVars, analyzing, observerVars,
          viewerVars, testVars>>

(***************************************************************************)
(* Client setup.                                                           *)
(***************************************************************************)
\* Python truthiness of os.environ.get(...): None and "" are false.
Truthy(v) == v # Absent /\ v # ""

Client(m, b, u, t) ==
    [mock_mode |-> m, bedrock |-> b, using_bearer_token |-> u, bedrock_token |-> t]

CurrentClient == Client(mock_mode, bedrock, using_bearer_token, bedrock_token)

SetClient(c) ==
    /\ mock_mode' = c.mock_mode
    /\ bedrock' = c.bedrock
    /\ using_bearer_token' = c.using_bearer_token
    /\ bedrock_token' = c.bedrock_token

DialogResults == {"saved", "cancelled"}

\* show_credentials_dialog: saved -> a new boto3 client (a NameError when boto3
\* was not imported); cancelled -> mock mode.
ShowCredentialsDialog(c, hasBoto3, dlg) ==
    IF dlg = "saved"
    THEN IF hasBoto3 THEN [c EXCEPT !.bedrock = "client"] ELSE c
    ELSE [c EXCEPT !.mock_mode = TRUE]

\* setup_aws_client testing "bearer_token is not None" in place of its truth
\* value: an empty token selects the bearer strategy.
SetupAwsClientNotNone(c, token, stsOk, dlg) ==
    IF token # Absent
    THEN [c EXCEPT !.bedrock_token = token, !.using_bearer_token = "True",
                   !.bedrock = "client"]
    ELSE LET c1 == [c EXCEPT !.using_bearer_token = "False", !.bedrock = "client"]
         IN  IF stsOk THEN c1 ELSE ShowCredentialsDialog(c1, TRUE, dlg)

\* setup_aws_client: the bearer token first, else the static credentials,
\* tested with sts; a failed test opens the credentials dialog.
SetupAwsClient(c, token, stsOk, dlg) ==
    IF Truthy(token)
    THEN [c EXCEPT !.bedrock_token = token, !.using_bearer_token = "True",
                   !.bedrock = "client"]
    ELSE LET c1 == [c EXCEPT !.using_bearer_token = "False", !.bedrock = "client"]
         IN  IF stsOk THEN c1 ELSE ShowCredentialsDialog(c1, TRUE, dlg)

\* ScreenAssistantApp.__init__ under main(): --mock or not; without boto3 only
\* --mock starts the application.
InitClient(mock, hasBoto3, token, stsOk, dlg) ==
    LET c0 == Client(mock, Absent, Absent, Absent)
    IN  IF ~mock /\ hasBoto3 THEN SetupAwsClient(c0, token, stsOk, dlg) ELSE c0

TextReady == <<"Ready">>

\* No reply, nothing encoded, no call of analyze_screen to look at.
NoReply == [kind |-> "none", status |-> 0, body |-> ""]
NoSent == [image |-> None, first |-> 0, bytes |-> 0, encodes |-> 0]
NoCall ==
    [called |-> FALSE, strategy |-> "none", reply |-> NoReply, raised |-> FALSE,
     message |-> <<>>, body |-> "", sent |-> NoSent]
\* No (new_width, new_height) computed.
NoSize == [w |-> 0, h |-> 0]
NoCapture ==
    [thread |-> "none", screen |-> None, leftover |-> {}, dialog |-> FALSE,
     failure |-> "none", monitors |-> "none"]

Init ==
    /\ envToken \in {Absent, "", "tok"}
    /\ boto3Available \in BOOLEAN
    /\ system \in {"darwin", "linux"}
    /\ \E mock \in BOOLEAN, stsOk \in BOOLEAN, dlg \in DialogResults :
          /\ mock \/ boto3Available
          /\ LET c == InitClient(mock, boto3Available, envToken, stsOk, dlg)
             IN  /\ mock_mode = c.mock_mode
                 /\ bedrock = c.bedrock
                 /\ using_bearer_token = c.using_bearer_token
                 /\ bedrock_token = c.bedrock_token
    /\ analyzing = FALSE
    /\ current_screenshot = None
    /\ button_state = "normal"
    /\ status = TextReady
    /\ progress_value = 0
    /\ results = <<>>
    /\ mainVisible = TRUE
    /\ approval_window = None
    /\ uiQueue = <<>>
    /\ uiPc = "idle"
    /\ capPc = "idle"
    /\ capScreen = None
    /\ aiPc = "idle"
    /\ aiScreen = None
    /\ aiSuggestion = <<>>
    /\ cycle = 0
    /\ cycleCapture = None
    /\ resets = 0
    /\ retakes = 0
    /\ lastCapture = NoCapture
    /\ captureAbsent = FALSE
    /\ strategiesUsed = {}
    /\ cycleInvokes = 0
    /\ cycleFailed = FALSE
    /\ cycleMock = "unread"
    /\ resultsFresh = FALSE
    /\ lastCall = NoCall
    /\ cycleThreads = 0
    /\ viewer_window = None
    /\ viewersOpen = 0
    /\ thumbnail_shown = FALSE
    /\ test_image = None
    /\ thumbnail = None
    /\ new_size = NoSize
    /\ stored_image = None
    /\ testPc = "none"

(***************************************************************************)
(* Callbacks posted to the UI thread with root.after.                      *)
(***************************************************************************)
Cb(name, n, text, img) == [cb |-> name, n |-> n, text |-> text, img |-> img]
Call(name) == Cb(name, 0, <<>>, None)
UpdateProgress(n, text) == Cb("update_progress", n, text, None)
StatusSet(text) == Cb("status_set", 0, text, None)
UpdateResults(text) == Cb("update_results", 0, text, None)
ShowApproval(img) == Cb("show_screenshot_for_approval", 0, <<>>, img)

Post(q, cbs) == q \o cbs

(***************************************************************************)
(* analyze_screen_thread, statement by statement.                          *)
(***************************************************************************)
\* lines 544-551: progress 10 and withdraw; then time.sleep(2)
PreparePosts ==
    <<UpdateProgress(10, <<"Preparing to capture screen...">>), Call("withdraw")>>

\* line 554: progress 30, before capture_full_screen()
CapturePosts == <<UpdateProgress(30, <<"Capturing screen...">>)>>

\* RestorePosts without the "Screenshot failed" status of line 569.
RestorePostsSilent(screen) ==
    <<Call("deiconify"), Call("lift"), Call("focus_force")>> \o
    (IF screen = None
     THEN <<Call("reset_ui")>>
     ELSE <<UpdateProgress(50, <<"Screenshot captured! Review below...">>),
            ShowApproval(screen)>>)

\* lines 563-577: restore the window, then report the failure or ask for approval
RestorePosts(screen) ==
    <<Call("deiconify"), Call("lift"), Call("focus_force")>> \o
    (IF screen = None
     THEN <<StatusSet(<<"Screenshot failed">>), Call("reset_ui")>>
     ELSE <<UpdateProgress(50, <<"Screenshot captured! Review below...">>),
            ShowApproval(screen)>>)

\* The except branch without its deiconify and lift.
ExceptPostsNoRestore(msg) ==
    <<StatusSet(<<"Error: ">> \o msg),
      UpdateResults(<<"An error occurred: ">> \o msg),
      Call("reset_ui")>>

\* lines 579-587: the except branch
ExceptPosts(msg) ==
    <<Call("deiconify"), Call("lift"),
      StatusSet(<<"Error: ">> \o msg),
      UpdateResults(<<"An error occurred: ">> \o msg),
      Call("reset_ui")>>

UnexpectedError == <<"unexpected error">>

CaptureRecord(thread, o) ==
    [thread |-> thread, screen |-> o.screen, leftover |-> o.leftover,
     dialog |-> o.dialog, failure |-> o.failure, monitors |-> o.monitors]

(***************************************************************************)
(* The model call: BedrockTokenClient.invoke_model, boto3's invoke_model   *)
(* and the reading of the envelope in analyze_screen.                      *)
(***************************************************************************)
ModelText == <<" ", "Try", " ", "this.", "\n">>

Replies ==
    {[kind |-> "response", status |-> 200, body |-> "envelope"],
     [kind |-> "response", status |-> 200, body |-> "no_content"],
     [kind |-> "response", status |-> 201, body |-> "envelope"],
     [kind |-> "response", status |-> 500, body |-> "server error"],
     [kind |-> "transport", status |-> 0, body |-> ""]}

Raise(msg) == [raised |-> TRUE, value |-> msg]
Return(v) == [raised |-> FALSE, value |-> v]

\* invoke_model raising only for the statuses requests calls errors (not
\* response.ok).
BearerInvokeModelOk(reply) ==
    IF reply.kind = "transport" THEN Raise(<<"ConnectionError">>)
    ELSE IF reply.status >= 400
    THEN Raise(<<"API call failed with status ">> \o IntToStr(reply.status)
               \o <<": ", reply.body>>)
    ELSE Return(reply.body)

\* token_auth.py: requests.post, then a non-200 status raises with the status
\* code and the body text; else the body is wrapped for response.body.read().
BearerInvokeModel(reply) ==
    IF reply.kind = "transport" THEN Raise(<<"ConnectionError">>)
    ELSE IF reply.status # 200
    THEN Raise(<<"API call failed with status ">> \o IntToStr(reply.status)
               \o <<": ", reply.body>>)
    ELSE Return(reply.body)

\* boto3: a transport error or an error status raises.
Boto3InvokeModel(reply) ==
    IF reply.kind = "transport" THEN Raise(<<"EndpointConnectionError">>)
    ELSE IF reply.status >= 300
    THEN Raise(<<"An error occurred (", IntToStr(reply.status)[1], "xx)">>)
    ELSE Return(reply.body)

\* json.loads(response.body.read())['content'][0]['text'].strip()
ReadEnvelope(body) ==
    IF body = "envelope" THEN Return(Strip(ModelText)) ELSE Raise(<<"'content'">>)

\* generate_mock_response with height and width exchanged.
GenerateMockResponseSwapped(image) ==
    Strip(<<"\n", "I can see your screen capture (resolution: ">>
          \o IntToStr(image.h) \o <<"x">> \o IntToStr(image.w)
          \o <<").", "\n", "The current time is ", "HH:MM:SS", "\n", " ">>)

\* generate_mock_response
GenerateMockResponse(image) ==
    Strip(<<"\n", "I can see your screen capture (resolution: ">>
          \o IntToStr(image.w) \o <<"x">> \o IntToStr(image.h)
          \o <<").", "\n", "The current time is ", "HH:MM:SS", "\n", " ">>)

(***************************************************************************)
(* compress_image.  The size of an encoded image depends on its pixels: it *)
(* is an input, in bytes, one for each image.save.                         *)
(***************************************************************************)
SizeLimitKB == 1000

EncodedSizes == {SizeLimitKB * 1024, SizeLimitKB * 1024 + 1}

\* int(width * 0.75), int(height * 0.75)
Resized(image) == Img((image.w * 3) \div 4, (image.h * 3) \div 4)

\* compress_image resizing a second time when the second encoding is still
\* above the limit (a third encoding, of the same size here).
CompressImageAgain(image, first, second) ==
    IF first > SizeLimitKB * 1024
    THEN IF second > SizeLimitKB * 1024
         THEN [image |-> Resized(Resized(image)), first |-> first,
               bytes |-> second, encodes |-> 3]
         ELSE [image |-> Resized(image), first |-> first, bytes |-> second,
               encodes |-> 2]
    ELSE [image |-> image, first |-> first, bytes |-> first, encodes |-> 1]

\* compress_image: the buffer it returns holds `bytes` bytes, the encoding of
\* `image`, after `encodes` calls of image.save.
CompressImage(image, first, second) ==
    IF first > SizeLimitKB * 1024
    THEN [image |-> Resized(image), first |-> first, bytes |-> second, encodes |-> 2]
    ELSE [image |-> image, first |-> first, bytes |-> first, encodes |-> 1]

\* analyze_screen, lines 851-867: which client is called, if any is.
\* "bearer" needs a token for BedrockTokenClient(); "static" needs self.bedrock.
Strategy(c) == IF c.using_bearer_token = "True" THEN "bearer" ELSE "static"

ClientCalled(c, token) ==
    IF Strategy(c) = "bearer"
    THEN Truthy(c.bedrock_token) \/ Truthy(token)
    ELSE c.bedrock # Absent

\* analyze_screen, lines 824-874, outside mock mode: the text it returns.
AnalyzeScreen(c, token, reply) ==
    LET called == ClientCalled(c, token)
        resp == IF ~called
                THEN (IF Strategy(c) = "bearer"
                      THEN Raise(<<"No Bedrock API token provided">>)
                      ELSE Raise(<<"'NoneType' object has no attribute 'invoke_model'">>))
                ELSE IF Strategy(c) = "bearer" THEN BearerInvokeModel(reply)
                ELSE Boto3InvokeModel(reply)
        text == IF resp.raised THEN resp ELSE ReadEnvelope(resp.value)
    IN  [called |-> called,
         strategy |-> Strategy(c),
         raised |-> resp.raised,
         message |-> IF resp.raised THEN resp.value ELSE <<>>,
         body |-> IF resp.raised THEN "" ELSE resp.value,
         failed |-> text.raised,
         text |-> IF text.raised
                  THEN <<"Error analyzing screen: ">> \o text.value
                  ELSE text.value]

\* ai_analysis_thread, lines 691-700
AiProgressPosts ==
    <<UpdateProgress(60, <<"Processing image...">>),
      UpdateProgress(70, <<"Compressing image...">>),
      UpdateProgress(80, <<"Sending to AI...">>),
      UpdateProgress(90, <<"AI is analyzing your screen...">>)>>

TextComplete == <<"Analysis complete!">>

\* AiReportPosts without the finally clause that posts reset_ui.
AiReportPostsNoReset(suggestion) ==
    <<UpdateProgress(100, TextComplete), UpdateResults(suggestion)>>

\* ai_analysis_thread, lines 706-717: analyze_screen returned suggestion
AiReportPosts(suggestion) ==
    <<UpdateProgress(100, TextComplete),
      UpdateResults(suggestion),
      Call("reset_ui")>>

(***************************************************************************)
(* generate_thumbnail and update_thumbnail.  Python computes the scaling   *)
(* ratio and the two products in double precision and truncates with       *)
(* int().  The ratio is max/original for the tighter of the two limits;    *)
(* a product whose exact value is not a whole number is nowhere near one,  *)
(* so int() gives its floor; a product whose exact value is a whole number *)
(* comes out exact when the ratio is a double exactly (a power-of-two      *)
(* denominator), and otherwise either exact or a hair under it, which      *)
(* int() truncates to one less.                                            *)
(***************************************************************************)
\* THUMBNAIL_CONFIG
THUMBNAIL_CONFIG == [max_width |-> 200, max_height |-> 150]

RECURSIVE Gcd(_, _)
Gcd(a, b) == IF b = 0 THEN a ELSE Gcd(b, a % b)

RECURSIVE IsPowerOfTwo(_)
IsPowerOfTwo(n) == n = 1 \/ (n > 1 /\ n % 2 = 0 /\ IsPowerOfTwo(n \div 2))

\* num / den is a double without rounding.
ExactDouble(num, den) == IsPowerOfTwo(den \div Gcd(num, den))

\* generate_thumbnail taking the larger of the two ratios: the looser limit.
ScaleRatioLoosest(image, max_size) ==
    IF max_size.w * image.h >= max_size.h * image.w
    THEN [num |-> max_size.w, den |-> image.w]
    ELSE [num |-> max_size.h, den |-> image.h]

\* generate_thumbnail, lines 453-455: min(width_ratio, height_ratio), kept
\* as the fraction max/original it was divided from.
ScaleRatio(image, max_size) ==
    IF max_size.w * image.h <= max_size.h * image.w
    THEN [num |-> max_size.w, den |-> image.w]
    ELSE [num |-> max_size.h, den |-> image.h]

\* int(original * scale_ratio): the values the double-precision product can
\* truncate to.
IntScaled(original, ratio) ==
    LET product == original * ratio.num
        floor == product \div ratio.den
    IN  IF product % ratio.den # 0 \/ ExactDouble(ratio.num, ratio.den)
        THEN {floor}
        ELSE {floor, floor - 1}

\* generate_thumbnail, lines 447-459: (new_width, new_height)
NewSizes(image, max_size) ==
    LET scale_ratio == ScaleRatio(image, max_size)
    IN  {[w |-> nw, h |-> nh] : nw \in IntScaled(image.w, scale_ratio),
                                nh \in IntScaled(image.h, scale_ratio)}

\* Image.resize: Pillow raises ValueError for a size below 1 x 1.
Resize(image, size) ==
    IF size.w < 1 \/ size.h < 1 THEN Raised ELSE Img(size.w, size.h)

\* generate_thumbnail with the default max_size: what it asked resize for and
\* what came back.
GenerateThumbnail(image) ==
    IF image = None
    THEN {[size |-> NoSize, thumbnail |-> None]}
    ELSE {[size |-> s, thumbnail |-> Resize(image, s)] :
             s \in NewSizes(image, [w |-> THUMBNAIL_CONFIG.max_width,
                                    h |-> THUMBNAIL_CONFIG.max_height])}

\* update_thumbnail: the frame is shown with the thumbnail, or cleared and
\* hidden when there is none or generate_thumbnail raised.
UpdateThumbnail(image) ==
    {g.thumbnail.kind = "image" : g \in GenerateThumbnail(image)}

(***************************************************************************)
(* Handlers of the UI thread.  The UI thread runs one at a time: a handler *)
(* starts only when no other handler is in progress (uiPc = "idle").       *)
(***************************************************************************)

\* on_analyze_clicked without the "if self.analyzing: return" guard.
OnAnalyzeClickedUnguarded ==
    /\ uiPc = "idle"
    /\ cycle < MaxCycles
    /\ analyzing' = TRUE
    /\ button_state' = "disabled"
    /\ status' = <<"Capturing screen...">>
    /\ capPc' = "prepare"
    /\ cycle' = cycle + 1
    /\ cycleCapture' = None
    /\ retakes' = 0
    /\ captureAbsent' = FALSE
    /\ cycleInvokes' = 0
    /\ cycleFailed' = FALSE
    /\ cycleMock' = "unread"
    /\ resultsFresh' = FALSE
    /\ cycleThreads' = 1
    /\ UNCHANGED <<configVars, viewerVars, testVars, clientVars, progress_value, results, mainVisible,
                   approval_window, current_screenshot, uiQueue, uiPc,
                   capScreen, aiPc, aiScreen, aiSuggestion, resets,
                   lastCapture, strategiesUsed, lastCall>>

\* on_analyze_clicked
OnAnalyzeClicked ==
    /\ uiPc = "idle"
    /\ IF analyzing
       THEN UNCHANGED vars
       ELSE /\ cycle < MaxCycles
            /\ analyzing' = TRUE
            /\ button_state' = "disabled"
            /\ status' = <<"Capturing screen...">>
            /\ capPc' = "prepare"
            /\ cycle' = cycle + 1
            /\ cycleCapture' = None
            /\ retakes' = 0
            /\ captureAbsent' = FALSE
            /\ cycleInvokes' = 0
            /\ cycleFailed' = FALSE
            /\ cycleMock' = "unread"
            /\ resultsFresh' = FALSE
            /\ cycleThreads' = 1
            /\ UNCHANGED <<configVars, viewerVars, testVars, clientVars, progress_value, results, mainVisible,
                           approval_window, current_screenshot, uiQueue, uiPc,
                           capScreen, aiPc, aiScreen, aiSuggestion, resets,
                           lastCapture, strategiesUsed, lastCall>>

\* toggle_mock_mode, line 411; lines 423-424 follow as ToggleSetup when the
\* application left mock mode and boto3 is there.  The menu is out of reach
\* while the approval window holds the grab.
ToggleMockMode ==
    /\ uiPc = "idle"
    /\ approval_window = None
    /\ mock_mode' = ~mock_mode
    /\ uiPc' = IF mock_mode /\ boto3Available THEN "toggle_setup" ELSE "idle"
    /\ UNCHANGED <<configVars, viewerVars, testVars, bedrock, using_bearer_token, bedrock_token, widgetVars,
                   uiQueue, capPc, capScreen, aiPc, aiScreen, aiSuggestion,
                   analyzing, observerVars>>

\* toggle_mock_mode, lines 423-424: setup_aws_client()
ToggleSetup ==
    /\ uiPc = "toggle_setup"
    /\ \E stsOk \in BOOLEAN, dlg \in DialogResults :
          SetClient(SetupAwsClient(CurrentClient, envToken, stsOk, dlg))
    /\ uiPc' = "idle"
    /\ UNCHANGED <<configVars, viewerVars, testVars, widgetVars, uiQueue, capPc, capScreen, aiPc, aiScreen,
                   aiSuggestion, analyzing, observerVars>>

\* Settings > AWS Credentials: show_credentials_dialog
MenuCredentials ==
    /\ uiPc = "idle"
    /\ approval_window = None
    /\ \E dlg \in DialogResults :
          SetClient(ShowCredentialsDialog(CurrentClient, boto3Available, dlg))
    /\ UNCHANGED <<configVars, viewerVars, testVars, widgetVars, threadVars, analyzing, observerVars>>

\* retake_screenshot, lines 669-673
RetakePosts ==
    <<UpdateProgress(10, <<"Preparing to retake screenshot...">>),
      Call("analyze_screen_thread")>>

\* retake_screenshot without approval_window.destroy(): the window stays open.
RetakeScreenshotKeepsWindow ==
    /\ uiPc = "idle"
    /\ approval_window # None
    /\ retakes < MaxRetakes
    /\ uiQueue' = Post(uiQueue, RetakePosts)
    /\ retakes' = retakes + 1
    /\ UNCHANGED <<configVars, viewerVars, testVars, clientVars, widgetVars, uiPc, capPc, capScreen, aiPc,
                   aiScreen, aiSuggestion, analyzing, cycle, cycleCapture, resets,
                   lastCapture, captureAbsent, strategiesUsed, cycleInvokes,
                   cycleFailed, cycleMock, resultsFresh, lastCall,
                   cycleThreads>>

\* retake_screenshot: the Retake button of the approval window
RetakeScreenshot ==
    /\ uiPc = "idle"
    /\ approval_window # None
    /\ retakes < MaxRetakes
    /\ approval_window' = None
    /\ uiQueue' = Post(uiQueue, RetakePosts)
    /\ retakes' = retakes + 1
    /\ UNCHANGED <<configVars, viewerVars, testVars, clientVars, button_state, status, progress_value, results,
                   mainVisible, current_screenshot, uiPc, capPc, capScreen, aiPc,
                   aiScreen, aiSuggestion, analyzing, cycle, cycleCapture, resets,
                   lastCapture, captureAbsent, strategiesUsed, cycleInvokes,
                   cycleFailed, cycleMock, resultsFresh, lastCall,
                   cycleThreads>>

\* store_screenshot keeping a reduced copy of the image.
StoreScreenshotReduced(image) == IF image # None THEN Resized(image) ELSE None

\* store_screenshot: image.copy() if image else None
StoreScreenshot(image) == IF image # None THEN image ELSE None

\* proceed_with_analysis without approval_window.destroy(): the Analyze
\* button can be clicked again.
ProceedWithAnalysisKeepsWindow ==
    /\ uiPc = "idle"
    /\ approval_window # None
    /\ cycleThreads < 3
    /\ current_screenshot' = StoreScreenshot(approval_window)
    /\ thumbnail_shown' \in UpdateThumbnail(approval_window)
    /\ aiPc' = "progress"
    /\ aiScreen' = approval_window
    /\ cycleThreads' = cycleThreads + 1
    /\ UNCHANGED <<configVars, viewer_window, viewersOpen, testVars, clientVars, button_state, status, progress_value, results,
                   mainVisible, approval_window, uiQueue, uiPc, capPc, capScreen,
                   aiSuggestion, analyzing, cycle, cycleCapture, resets, retakes, lastCapture,
                   captureAbsent, strategiesUsed, cycleInvokes, cycleFailed, cycleMock,
                   resultsFresh, lastCall>>

\* proceed_with_analysis: the Analyze button of the approval window; a new
\* thread runs ai_analysis_thread.
ProceedWithAnalysis ==
    /\ uiPc = "idle"
    /\ approval_window # None
    /\ approval_window' = None
    /\ current_screenshot' = StoreScreenshot(approval_window)
    /\ thumbnail_shown' \in UpdateThumbnail(approval_window)
    /\ aiPc' = "progress"
    /\ aiScreen' = approval_window
    /\ cycleThreads' = cycleThreads + 1
    /\ UNCHANGED <<configVars, viewer_window, viewersOpen, testVars, clientVars, button_state, status, progress_value, results,
                   mainVisible, uiQueue, uiPc, capPc, capScreen, aiSuggestion,
                   analyzing, cycle, cycleCapture, resets, retakes, lastCapture, captureAbsent,
                   strategiesUsed, cycleInvokes, cycleFailed, cycleMock, resultsFresh,
                   lastCall>>

\* The approval window closed by the window manager: Tk destroys it.
ApprovalClosed ==
    /\ uiPc = "idle"
    /\ approval_window # None
    /\ approval_window' = None
    /\ UNCHANGED <<configVars, viewerVars, testVars, clientVars, button_state, status, progress_value, results,
                   mainVisible, current_screenshot, threadVars, analyzing, observerVars>>

(***************************************************************************)
(* Queued callbacks, run by the UI thread in firing order.                 *)
(***************************************************************************)
NextCb(name) == uiPc = "idle" /\ uiQueue # <<>> /\ Head(uiQueue).cb = name

\* The thread that is running analyze_screen_thread.
CaptureThread == IF uiPc = "analyze_screen_thread" THEN "ui" ELSE "worker"

\* analyze_screen_thread returns: the UI thread is free again if it ran it.
Returned(pc) == IF pc = "analyze_screen_thread" THEN "idle" ELSE pc

\* update_progress
RunUpdateProgress ==
    /\ NextCb("update_progress")
    /\ progress_value' = Head(uiQueue).n
    /\ status' = Head(uiQueue).text
    /\ uiQueue' = Tail(uiQueue)
    /\ UNCHANGED <<configVars, viewerVars, testVars, clientVars, button_state, results, mainVisible,
                   approval_window, current_screenshot, uiPc, capPc, capScreen, aiPc,
                   aiScreen, aiSuggestion, analyzing, observerVars>>

\* status_var.set
RunStatusSet ==
    /\ NextCb("status_set")
    /\ status' = Head(uiQueue).text
    /\ uiQueue' = Tail(uiQueue)
    /\ UNCHANGED <<configVars, viewerVars, testVars, clientVars, button_state, progress_value, results,
                   mainVisible, approval_window, current_screenshot, uiPc, capPc,
                   capScreen, aiPc, aiScreen, aiSuggestion, analyzing,
                   observerVars>>

\* root.withdraw, root.deiconify, root.lift, root.focus_force
WindowShown(name, shown) ==
    CASE name = "withdraw" -> FALSE
      [] name = "deiconify" -> TRUE
      [] OTHER -> shown

RunWindowCall ==
    /\ uiPc = "idle" /\ uiQueue # <<>>
    /\ Head(uiQueue).cb \in {"withdraw", "deiconify", "lift", "focus_force"}
    /\ mainVisible' = WindowShown(Head(uiQueue).cb, mainVisible)
    /\ uiQueue' = Tail(uiQueue)
    /\ UNCHANGED <<configVars, viewerVars, testVars, clientVars, button_state, status, progress_value, results,
                   approval_window, current_screenshot, uiPc, capPc, capScreen, aiPc,
                   aiScreen, aiSuggestion, analyzing, observerVars>>

\* update_results
RunUpdateResults ==
    /\ NextCb("update_results")
    /\ results' = Head(uiQueue).text
    /\ resultsFresh' = TRUE
    /\ uiQueue' = Tail(uiQueue)
    /\ UNCHANGED <<configVars, viewerVars, testVars, clientVars, button_state, status, progress_value,
                   mainVisible, approval_window, current_screenshot, uiPc, capPc,
                   capScreen, aiPc, aiScreen, aiSuggestion, analyzing, cycle, cycleCapture,
                   resets, retakes, lastCapture, captureAbsent, strategiesUsed,
                   cycleInvokes, cycleFailed, cycleMock, lastCall,
                   cycleThreads>>

\* reset_ui
RunResetUi ==
    /\ NextCb("reset_ui")
    /\ button_state' = "normal"
    /\ status' = TextReady
    /\ analyzing' = FALSE
    /\ resets' = resets + 1
    /\ uiQueue' = Tail(uiQueue)
    /\ UNCHANGED <<configVars, viewerVars, testVars, clientVars, progress_value, results, mainVisible,
                   approval_window, current_screenshot, uiPc, capPc, capScreen, aiPc,
                   aiScreen, aiSuggestion, cycle, cycleCapture, retakes, lastCapture,
                   captureAbsent, strategiesUsed, cycleInvokes, cycleFailed, cycleMock,
                   resultsFresh, lastCall,
                   cycleThreads>>

\* show_screenshot_for_approval showing the stored screenshot when there is
\* one, in place of the capture it was given.
RunShowApprovalStored ==
    /\ NextCb("show_screenshot_for_approval")
    /\ approval_window' = IF current_screenshot # None THEN current_screenshot
                          ELSE Head(uiQueue).img
    /\ uiQueue' = Tail(uiQueue)
    /\ UNCHANGED <<configVars, viewerVars, testVars, clientVars, button_state, status, progress_value, results,
                   mainVisible, current_screenshot, uiPc, capPc, capScreen, aiPc,
                   aiScreen, aiSuggestion, analyzing, observerVars>>

\* show_screenshot_for_approval
RunShowApproval ==
    /\ NextCb("show_screenshot_for_approval")
    /\ approval_window' = Head(uiQueue).img
    /\ uiQueue' = Tail(uiQueue)
    /\ UNCHANGED <<configVars, viewerVars, testVars, clientVars, button_state, status, progress_value, results,
                   mainVisible, current_screenshot, uiPc, capPc, capScreen, aiPc,
                   aiScreen, aiSuggestion, analyzing, observerVars>>

\* retake_screenshot, line 673: the lambda calls analyze_screen_thread() itself,
\* so the function runs on the UI thread, which does nothing else until it returns.
RunRetakeCapture ==
    /\ NextCb("analyze_screen_thread")
    /\ uiQueue' = Tail(uiQueue)
    /\ uiPc' = "analyze_screen_thread"
    /\ capPc' = "prepare"
    /\ UNCHANGED <<configVars, viewerVars, testVars, clientVars, widgetVars, capScreen, aiPc, aiScreen, aiSuggestion, analyzing, observerVars>>

(***************************************************************************)
(* analyze_screen_thread: on the worker thread started by                  *)
(* on_analyze_clicked, or on the UI thread after a Retake.                 *)
(***************************************************************************)
\* lines 544-551
CapPrepare ==
    /\ capPc = "prepare"
    /\ uiQueue' = Post(uiQueue, PreparePosts)
    /\ capPc' = "capture"
    /\ UNCHANGED <<configVars, viewerVars, testVars, clientVars, widgetVars, uiPc, capScreen, aiPc, aiScreen,
                   aiSuggestion, analyzing, observerVars>>

\* lines 554-560: capture_full_screen(); an exception it raised is caught at
\* line 579.
CapCapture ==
    /\ capPc = "capture"
    /\ \E o \in CaptureOutcomes(system) :
          /\ lastCapture' = CaptureRecord(CaptureThread, o)
          /\ IF o.screen = Raised
             THEN /\ uiQueue' = Post(uiQueue, CapturePosts \o ExceptPosts(UnexpectedError))
                  /\ capPc' = "idle"
                  /\ uiPc' = Returned(uiPc)
                  /\ UNCHANGED <<capScreen, captureAbsent, cycleCapture>>
             ELSE /\ capScreen' = o.screen
                  /\ cycleCapture' = o.screen
                  /\ captureAbsent' = (captureAbsent \/ o.screen = None)
                  /\ uiQueue' = Post(uiQueue, CapturePosts)
                  /\ capPc' = "restore"
                  /\ UNCHANGED uiPc
    /\ UNCHANGED <<configVars, viewerVars, testVars, clientVars, widgetVars, aiPc, aiScreen, aiSuggestion,
                   analyzing, cycle, resets, retakes, strategiesUsed,
                   cycleInvokes, cycleFailed, cycleMock, resultsFresh, lastCall,
                   cycleThreads>>

\* lines 579-587: an exception inside the try block
CapRaise ==
    /\ capPc = "capture"
    /\ uiQueue' = Post(uiQueue, CapturePosts \o ExceptPosts(UnexpectedError))
    /\ capPc' = "idle"
    /\ uiPc' = Returned(uiPc)
    /\ UNCHANGED <<configVars, viewerVars, testVars, clientVars, widgetVars, capScreen, aiPc, aiScreen,
                   aiSuggestion, analyzing, observerVars>>

\* lines 563-577
CapRestore ==
    /\ capPc = "restore"
    /\ uiQueue' = Post(uiQueue, RestorePosts(capScreen))
    /\ capPc' = "idle"
    /\ capScreen' = None
    /\ uiPc' = Returned(uiPc)
    /\ lastCapture' = NoCapture
    /\ UNCHANGED <<configVars, viewerVars, testVars, clientVars, widgetVars, aiPc, aiScreen, aiSuggestion, analyzing, cycle, cycleCapture, resets, retakes, captureAbsent,
                   strategiesUsed, cycleInvokes, cycleFailed, cycleMock, resultsFresh, lastCall,
                   cycleThreads>>

(***************************************************************************)
(* The worker thread started by proceed_with_analysis: ai_analysis_thread. *)
(***************************************************************************)
\* lines 691-700
AiProgress ==
    /\ aiPc = "progress"
    /\ uiQueue' = Post(uiQueue, AiProgressPosts)
    /\ aiPc' = "analyze"
    /\ UNCHANGED <<configVars, viewerVars, testVars, clientVars, widgetVars, uiPc, capPc, capScreen, aiScreen,
                   aiSuggestion, analyzing, observerVars>>

\* analyze_screen has encoded the image: what image_to_base64 was given back.
SentRecord(sent) == [NoCall EXCEPT !.sent = sent]

\* analyze_screen, lines 818-824: self.mock_mode is read; in mock mode the
\* mock response is the result, else the image is encoded (image_to_base64,
\* compress_image).
AiReadMock ==
    /\ aiPc = "analyze"
    /\ cycleMock' = IF mock_mode THEN "True" ELSE "False"
    /\ IF mock_mode
       THEN /\ aiSuggestion' = GenerateMockResponse(aiScreen)
            /\ aiPc' = "report"
            /\ UNCHANGED lastCall
       ELSE /\ aiPc' = "invoke"
            /\ \E first \in EncodedSizes, second \in EncodedSizes :
                  lastCall' = SentRecord(CompressImage(aiScreen, first, second))
            /\ UNCHANGED aiSuggestion
    /\ UNCHANGED <<configVars, viewerVars, testVars, clientVars, widgetVars, uiQueue, uiPc, capPc, capScreen,
                   aiScreen, analyzing, cycle, cycleCapture, resets, retakes, lastCapture,
                   captureAbsent, strategiesUsed, cycleInvokes, cycleFailed,
                   resultsFresh, cycleThreads>>

\* analyze_screen has gone through lines 852-867: what invoke_model was given
\* and did, when a client was called.
CallRecord(r, reply) ==
    [called |-> r.called, strategy |-> r.strategy,
     reply |-> IF r.called THEN reply ELSE NoReply,
     raised |-> r.raised, message |-> r.message, body |-> r.body, sent |-> NoSent]

\* analyze_screen calling the client again, once, after a failed call.
AiInvokeRetry ==
    /\ aiPc = "invoke"
    /\ \E reply \in Replies :
          LET r == AnalyzeScreen(CurrentClient, envToken, reply)
          IN  /\ aiSuggestion' = r.text
              /\ strategiesUsed' = IF r.called THEN strategiesUsed \cup {r.strategy}
                                    ELSE strategiesUsed
              /\ cycleInvokes' = IF r.called THEN cycleInvokes + 1 ELSE cycleInvokes
              /\ cycleFailed' = (cycleFailed \/ r.failed)
              /\ lastCall' = CallRecord(r, reply)
              /\ aiPc' = IF r.called /\ r.failed /\ cycleInvokes = 0
                         THEN "invoke" ELSE "report"
    /\ UNCHANGED <<configVars, viewerVars, testVars, clientVars, widgetVars, uiQueue, uiPc, capPc, capScreen,
                   aiScreen, analyzing, cycle, cycleCapture, resets, retakes, lastCapture,
                   captureAbsent, cycleMock, resultsFresh,
                   cycleThreads>>

\* analyze_screen, lines 826-874: read the strategy, call the client
AiInvoke ==
    /\ aiPc = "invoke"
    /\ \E reply \in Replies :
          LET r == AnalyzeScreen(CurrentClient, envToken, reply)
          IN  /\ aiSuggestion' = r.text
              /\ strategiesUsed' = IF r.called THEN strategiesUsed \cup {r.strategy}
                                    ELSE strategiesUsed
              /\ cycleInvokes' = IF r.called THEN cycleInvokes + 1 ELSE cycleInvokes
              /\ cycleFailed' = (cycleFailed \/ r.failed)
              /\ lastCall' = CallRecord(r, reply)
    /\ aiPc' = "report"
    /\ UNCHANGED <<configVars, viewerVars, testVars, clientVars, widgetVars, uiQueue, uiPc, capPc, capScreen,
                   aiScreen, analyzing, cycle, cycleCapture, resets, retakes, lastCapture,
                   captureAbsent, cycleMock, resultsFresh,
                   cycleThreads>>

\* lines 706-717
AiReport ==
    /\ aiPc = "report"
    /\ uiQueue' = Post(uiQueue, AiReportPosts(aiSuggestion))
    /\ aiPc' = "idle"
    /\ aiScreen' = None
    /\ aiSuggestion' = <<>>
    /\ lastCall' = NoCall
    /\ UNCHANGED <<configVars, viewerVars, testVars, clientVars, widgetVars, uiPc, capPc, capScreen, analyzing,
                   cycle, cycleCapture, resets, retakes, lastCapture, captureAbsent, strategiesUsed,
                   cycleInvokes, cycleFailed, cycleMock, resultsFresh,
                   cycleThreads>>

(***************************************************************************)
(* The specification.                                                      *)
(***************************************************************************)
UserAnswers == RetakeScreenshot \/ ProceedWithAnalysis

UiCallbacks ==
    \/ RunUpdateProgress \/ RunStatusSet \/ RunWindowCall \/ RunUpdateResults
    \/ RunResetUi \/ RunShowApproval \/ RunRetakeCapture

Workers ==
    \/ CapPrepare \/ CapCapture \/ CapRaise \/ CapRestore
    \/ AiProgress \/ AiReadMock \/ AiInvoke \/ AiReport

Next ==
    \/ OnAnalyzeClicked
    \/ ToggleMockMode
    \/ ToggleSetup
    \/ MenuCredentials
    \/ RetakeScreenshot
    \/ ProceedWithAnalysis
    \/ ApprovalClosed
    \/ RunUpdateProgress
    \/ RunStatusSet
    \/ RunWindowCall
    \/ RunUpdateResults
    \/ RunResetUi
    \/ RunShowApproval
    \/ RunRetakeCapture
    \/ CapPrepare
    \/ CapCapture
    \/ CapRaise
    \/ CapRestore
    \/ AiProgress
    \/ AiReadMock
    \/ AiInvoke
    \/ AiReport

Spec == Init /\ [][Next]_vars

\* The steps of analyze_screen_thread and of ai_analysis_thread.
CapSteps == CapPrepare \/ CapCapture \/ CapRaise \/ CapRestore
AiSteps == AiProgress \/ AiReadMock \/ AiInvoke \/ AiReport

\* on_analyze_clicked, for the cycles followed to their end.
LiveOnAnalyzeClicked == cycle < LiveCycles /\ OnAnalyzeClicked

\* One initial state per behaviour of the setup: macOS (the capture provider
\* with the most paths), the token unset or set.
LiveInit == Init /\ system = "darwin" /\ envToken # ""

\* The program with a user who answers every approval window with Retake or
\* Analyze, never closes it otherwise, and leaves the Settings menu alone.
NextAnswered ==
    \/ LiveOnAnalyzeClicked
    \/ RetakeScreenshot
    \/ ProceedWithAnalysis
    \/ RunUpdateProgress
    \/ RunStatusSet
    \/ RunWindowCall
    \/ RunUpdateResults
    \/ RunResetUi
    \/ RunShowApproval
    \/ RunRetakeCapture
    \/ CapPrepare
    \/ CapCapture
    \/ CapRaise
    \/ CapRestore
    \/ AiProgress
    \/ AiReadMock
    \/ AiInvoke
    \/ AiReport

\* Threads are scheduled and blocking calls return (WF on the threads'
\* steps); Tk's event loop runs every queued callback once the UI thread is
\* free (WF); the user answers an approval window (WF).
LiveSpec ==
    /\ LiveInit /\ [][NextAnswered]_vars
    /\ WF_vars(CapSteps)
    /\ WF_vars(AiSteps)
    /\ WF_vars(UiCallbacks)
    /\ WF_vars(UserAnswers)

(***************************************************************************)
(* The screenshot viewer.  self.viewer_window names the viewer the         *)
(* application believes open; viewersOpen counts the ScreenshotViewer      *)
(* windows that exist.  The viewer asks for the grab (line 886), which     *)
(* the window system may not give; the click is taken as deliverable       *)
(* whenever the UI thread is free, and it is the handler's own test that   *)
(* decides what it does.                                                   *)
(***************************************************************************)
\* on_thumbnail_click without the "self.viewer_window is None" test.
OnThumbnailClickAlways ==
    /\ uiPc = "idle"
    /\ IF current_screenshot # None
       THEN /\ viewer_window' = current_screenshot
            /\ viewersOpen' = viewersOpen + 1
            /\ UNCHANGED <<configVars, clientVars, widgetVars, threadVars, analyzing,
                           observerVars, thumbnail_shown, testVars>>
       ELSE UNCHANGED vars

\* on_thumbnail_click: ScreenshotViewer(self.root, self.current_screenshot)
OnThumbnailClick ==
    /\ uiPc = "idle"
    /\ IF current_screenshot # None /\ viewer_window = None
       THEN /\ viewer_window' = current_screenshot
            /\ viewersOpen' = viewersOpen + 1
            /\ UNCHANGED <<configVars, clientVars, widgetVars, threadVars, analyzing,
                           observerVars, thumbnail_shown, testVars>>
       ELSE UNCHANGED vars

\* ScreenshotViewer.close_window, the Close button: self.destroy()
CloseWindow ==
    /\ uiPc = "idle"
    /\ viewersOpen > 0
    /\ viewersOpen' = viewersOpen - 1
    /\ UNCHANGED <<configVars, clientVars, widgetVars, threadVars, analyzing,
                   observerVars, viewer_window, thumbnail_shown, testVars>>

\* ScreenshotViewer.on_escape_key: close_window()
OnEscapeKey ==
    /\ uiPc = "idle"
    /\ viewersOpen > 0
    /\ viewersOpen' = viewersOpen - 1
    /\ UNCHANGED <<configVars, clientVars, widgetVars, threadVars, analyzing,
                   observerVars, viewer_window, thumbnail_shown, testVars>>

\* on_viewer_closed, the WM_DELETE_WINDOW handler of the viewer
OnViewerClosed ==
    /\ uiPc = "idle"
    /\ viewersOpen > 0
    /\ IF viewer_window # None
       THEN /\ viewersOpen' = viewersOpen - 1
            /\ viewer_window' = None
            /\ UNCHANGED <<configVars, clientVars, widgetVars, threadVars, analyzing,
                           observerVars, thumbnail_shown, testVars>>
       ELSE UNCHANGED vars

\* The application off macOS with the token set, in mock mode or with the
\* bearer-token client.
ViewInit == Init /\ system = "linux" /\ envToken = "tok"

\* The analysis cycle, without the Settings menu, and the viewer.
ViewNext ==
    \/ OnAnalyzeClicked
    \/ RetakeScreenshot
    \/ ProceedWithAnalysis
    \/ ApprovalClosed
    \/ RunUpdateProgress
    \/ RunStatusSet
    \/ RunWindowCall
    \/ RunUpdateResults
    \/ RunResetUi
    \/ RunShowApproval
    \/ RunRetakeCapture
    \/ CapPrepare
    \/ CapCapture
    \/ CapRaise
    \/ CapRestore
    \/ AiProgress
    \/ AiReadMock
    \/ AiInvoke
    \/ AiReport
    \/ OnThumbnailClick
    \/ CloseWindow
    \/ OnEscapeKey
    \/ OnViewerClosed

ViewSpec == ViewInit /\ [][ViewNext]_vars

(***************************************************************************)
(* test_thumbnail.py: the script builds the application in mock mode on a  *)
(* withdrawn root and calls generate_thumbnail, store_screenshot and       *)
(* get_current_screenshot on images it draws itself.                       *)
(***************************************************************************)
\* test_cases, and the 640 x 480 image of test_screenshot_storage, within a
\* grid of widths and heights that also holds very wide and very tall images.
TestWidths == {1, 30, 400, 500, 640, 800, 1000, 1366, 1920, 2000, 2732}
TestHeights == {1, 30, 300, 480, 500, 600, 768, 1000, 1080}
TestImages == {Img(w, h) : w \in TestWidths, h \in TestHeights}
StorageImages == {Img(640, 480), Img(1000, 500), None}

\* get_current_screenshot
GetCurrentScreenshot == current_screenshot

\* root.withdraw(); app = ScreenAssistantApp(root, mock_mode=True)
TestInit ==
    /\ envToken = Absent
    /\ boto3Available \in BOOLEAN
    /\ system \in {"darwin", "linux"}
    /\ LET c == InitClient(TRUE, boto3Available, envToken, TRUE, "saved")
       IN  /\ mock_mode = c.mock_mode
           /\ bedrock = c.bedrock
           /\ using_bearer_token = c.using_bearer_token
           /\ bedrock_token = c.bedrock_token
    /\ analyzing = FALSE
    /\ current_screenshot = None
    /\ button_state = "normal"
    /\ status = TextReady
    /\ progress_value = 0
    /\ results = <<>>
    /\ mainVisible = FALSE
    /\ approval_window = None
    /\ uiQueue = <<>>
    /\ uiPc = "idle"
    /\ capPc = "idle"
    /\ capScreen = None
    /\ aiPc = "idle"
    /\ aiScreen = None
    /\ aiSuggestion = <<>>
    /\ cycle = 0
    /\ cycleCapture = None
    /\ resets = 0
    /\ retakes = 0
    /\ lastCapture = NoCapture
    /\ captureAbsent = FALSE
    /\ strategiesUsed = {}
    /\ cycleInvokes = 0
    /\ cycleFailed = FALSE
    /\ cycleMock = "unread"
    /\ resultsFresh = FALSE
    /\ lastCall = NoCall
    /\ cycleThreads = 0
    /\ viewer_window = None
    /\ viewersOpen = 0
    /\ thumbnail_shown = FALSE
    /\ test_image = None
    /\ thumbnail = None
    /\ new_size = NoSize
    /\ stored_image = None
    /\ testPc = "start"

appVars == <<configVars, clientVars, threadVars, analyzing, observerVars, viewerVars>>

\* test_thumbnail_generation, lines 46-56: one test case.  An exception out of
\* generate_thumbnail ends the script.
TestThumbnailGeneration ==
    /\ testPc # "aborted"
    /\ \E image \in TestImages : \E g \in GenerateThumbnail(image) :
          /\ test_image' = image
          /\ thumbnail' = g.thumbnail
          /\ new_size' = g.size
          /\ testPc' = IF g.thumbnail = Raised THEN "aborted" ELSE "thumbnail"
    /\ UNCHANGED <<appVars, widgetVars, stored_image>>

\* test_screenshot_storage, lines 96 and 110: store_screenshot
TestStoreScreenshot ==
    /\ testPc # "aborted"
    /\ \E image \in StorageImages :
          /\ test_image' = image
          /\ current_screenshot' = StoreScreenshot(image)
    /\ testPc' = "stored"
    /\ UNCHANGED <<appVars, button_state, status, progress_value, results, mainVisible,
                   approval_window, thumbnail, new_size, stored_image>>

\* test_screenshot_storage, lines 99 and 111: get_current_screenshot
TestGetCurrentScreenshot ==
    /\ testPc = "stored"
    /\ stored_image' = GetCurrentScreenshot
    /\ testPc' = "retrieved"
    /\ UNCHANGED <<appVars, widgetVars, test_image, thumbnail, new_size>>

TestNext ==
    \/ TestThumbnailGeneration
    \/ TestStoreScreenshot
    \/ TestGetCurrentScreenshot

TestSpec == TestInit /\ [][TestNext]_vars

(***************************************************************************)
(* Properties.                                                             *)
(***************************************************************************)
Idle == ~analyzing /\ button_state = "normal" /\ status = TextReady
Complete == progress_value = 100 /\ status = TextComplete
Failed == status = <<"Screenshot failed">> \/ (status # <<>> /\ Head(status) = "Error: ")

\* A cycle is in progress from on_analyze_clicked to reset_ui; everything a
\* cycle does (its workers, its approval window, its queued callbacks)
\* happens while it is in progress, and one thing at a time.
SerializedInv ==
    /\ cycle - resets \in {0, 1}
    /\ analyzing <=> (cycle - resets = 1)
    /\ ~analyzing =>
          /\ capPc = "idle" /\ aiPc = "idle" /\ approval_window = None
          /\ uiQueue = <<>> /\ uiPc # "analyze_screen_thread"
    /\ ~(capPc # "idle" /\ aiPc # "idle")
    /\ approval_window # None => capPc = "idle" /\ aiPc = "idle"

\* A step taken while analyzing is set starts no cycle and no capture worker;
\* a cycle starts only when reset_ui has run for every cycle before it.
SerializedStep ==
    /\ analyzing => cycle' = cycle
    /\ analyzing /\ capPc = "idle" /\ capPc' # "idle" => uiPc' = "analyze_screen_thread"
    /\ cycle' # cycle => resets = cycle /\ cycle' = cycle + 1 /\ capPc' = "prepare"

\* C1: analysis cycles are serialized: at most one cycle is in progress in
\* every reachable state, no step taken while analyzing is set (a call of
\* on_analyze_clicked among them) starts a cycle, a capture or a worker, and a
\* new cycle starts only after reset_ui has run for the previous one.
C1_CyclesSerialized == []SerializedInv /\ [][SerializedStep]_vars

\* A second cycle is running, after reset_ui ended the first, and the UI
\* thread is free to take a click on Analyze.
C1_Witness ==
    analyzing /\ cycle = 2 /\ resets = 1 /\ uiPc = "idle" /\ capPc = "capture"

\* C2: whenever capture_full_screen returned None in a cycle, no model client
\* (boto3 or BedrockTokenClient) is invoked in that cycle, up to and
\* including its return to Idle, and no analysis worker runs.
C2_AbsentCaptureNoInvocation ==
    captureAbsent => cycleInvokes = 0 /\ aiPc = "idle" /\ cycleMock = "unread"

\* A cycle whose capture returned None is back in Idle, outside mock mode.
C2_Witness == captureAbsent /\ Idle /\ resets = cycle /\ ~mock_mode /\ bedrock = "client"

\* C3: every started cycle eventually reaches Complete or Failed, and returns
\* to Idle (analyzing false, Analyze enabled, status "Ready"), when the threads
\* run, blocking calls return, queued callbacks are run and the user answers
\* each approval window with Retake (at most MaxRetakes times) or Analyze.
C3_CycleEnds ==
    /\ [](analyzing => <>(analyzing /\ (Complete \/ Failed)))
    /\ [](analyzing => <>Idle)

\* A cycle that went through approval and analysis is back in Idle.
C3_Witness == Idle /\ resets = cycle /\ cycle >= 1 /\ cycleMock # "unread" /\ resultsFresh

\* C4: if the model invocation fails with an exception, the cycle does not
\* report completion (progress 100, "Analysis complete!").
C4_FailedInvocationNotComplete == cycleFailed => ~Complete

\* C5: the blocking work of a cycle (the settle delay and
\* capture_full_screen; the model invocation) never runs on the UI thread.
C5_BlockingWorkOffUiThread == lastCapture.thread # "ui"

\* C6: code running on a worker thread creates no UI object: a capture made on
\* a worker thread opens no permission dialog (tk.Tk(), messagebox).
C6_WorkerNeverTouchesUi == ~(lastCapture.thread = "worker" /\ lastCapture.dialog)

\* C7: when the native capture returns, every temporary file it created has
\* been deleted.
C7_TempFilesDeleted == lastCapture.leftover = {}

\* C8: every model invocation of the process uses the same credential strategy.
C8_OneStrategy == Cardinality(strategiesUsed) <= 1

\* C9: once setup_aws_client has run, using_bearer_token is true exactly when
\* AWS_BEARER_TOKEN_BEDROCK is set and not empty; with the token unset or
\* empty no invocation ever goes through BedrockTokenClient.
C9_TokenSelectsStrategy ==
    /\ using_bearer_token # Absent =>
          (using_bearer_token = "True" <=> envToken \notin {Absent, ""})
    /\ envToken \in {Absent, ""} => "bearer" \notin strategiesUsed

\* Setup ran with an empty token and the model was invoked through boto3.
C9_Witness ==
    envToken = "" /\ using_bearer_token = "False" /\ strategiesUsed = {"static"}

\* w "x" h, as it appears in a text.
Dimensions(image) == IntToStr(image.w) \o <<"x">> \o IntToStr(image.h)

\* C10: in a cycle whose analysis ran in mock mode no model client is invoked,
\* and the result it displays comes with the report of completion, is not
\* empty and contains "{w}x{h}" for the approved image.
C10_MockResult ==
    cycleMock = "True" =>
        /\ cycleInvokes = 0
        /\ resultsFresh =>
              /\ progress_value = 100
              /\ results # <<>>
              /\ Contains(results, Dimensions(current_screenshot))

\* A mock cycle that displayed its result for the 1600x600 capture is over.
C10_Witness ==
    cycleMock = "True" /\ resultsFresh /\ Idle /\ current_screenshot = AggregateSize

\* C11: a cycle calls invoke_model at most once, whatever the number of
\* retakes and whatever the outcome of the call: a failed call is not repeated.
C11_OneRequestPerCycle == cycleInvokes <= 1

\* A cycle with a retake made one call, which failed, and is over.
C11_Witness ==
    cycleInvokes = 1 /\ cycleFailed /\ retakes = MaxRetakes /\ Idle /\ resets = cycle

\* The worker threads that have statements left to run.
WorkersAlive ==
    (IF capPc # "idle" /\ CaptureThread = "worker" THEN 1 ELSE 0)
    + (IF aiPc # "idle" THEN 1 ELSE 0)

C13_WorkerFieldsUnchangedInCycle == [][analyzing => UNCHANGED clientVars]_vars

\* C14: once a capture of a cycle has returned None, no approval window is
\* shown and no analysis starts; the cycle comes to show "Screenshot failed"
\* with the main window restored, and then returns to Idle, still in that cycle.
C14_AbsentCaptureFails ==
    /\ [](captureAbsent => approval_window = None /\ aiPc = "idle")
    /\ [](captureAbsent /\ analyzing =>
            <>(analyzing /\ captureAbsent /\ mainVisible
               /\ status = <<"Screenshot failed">>))
    /\ [](captureAbsent /\ analyzing => <>(Idle /\ captureAbsent /\ mainVisible))

\* The failure of a capture that followed a retake is on display.
C14_Witness ==
    captureAbsent /\ analyzing /\ mainVisible /\ retakes = MaxRetakes
    /\ status = <<"Screenshot failed">>

\* C15: whenever capture_full_screen has run, on the first capture of a cycle
\* or after a Retake, the main window was withdrawn.
C15_HiddenBeforeCapture == lastCapture.thread # "none" => ~mainVisible

\* C16: a capture in which the screencapture command exited non-zero, left no
\* output file or left an empty one returns None.
C16_NativeFailureGivesAbsent ==
    lastCapture.failure # "none" => lastCapture.screen = None

\* C17: no call of capture_full_screen ends with an exception, on macOS or
\* elsewhere, whatever fails inside it.
C17_CaptureNeverRaises == lastCapture.screen.kind # "raised"

\* A capture in which subprocess.run raised TimeoutExpired returned None.
C17_Witness ==
    /\ lastCapture.thread # "none" /\ lastCapture.failure = "none"
    /\ lastCapture.leftover # {} /\ lastCapture.screen = None

\* C18: what capture_full_screen returns is None or an image of positive
\* width and height, also when screencapture left an empty file.
C18_ImageOrAbsent ==
    lastCapture.thread # "none" =>
        \/ lastCapture.screen = None
        \/ /\ lastCapture.screen.kind = "image"
           /\ lastCapture.screen.w > 0
           /\ lastCapture.screen.h > 0

\* A capture whose screencapture left an empty file returned the image of the
\* fallback library.
C18_Witness == lastCapture.failure = "empty" /\ lastCapture.screen.kind = "image"

\* C19: BedrockTokenClient.invoke_model returns only for status 200, and
\* then body.read() gives the body text of the reply; for any other status
\* it raises, with the status code and the body text in the message.
C19_BearerStatusContract ==
    lastCall.called /\ lastCall.strategy = "bearer" =>
        /\ ~lastCall.raised =>
              /\ lastCall.reply.kind = "response"
              /\ lastCall.reply.status = 200
              /\ lastCall.body = lastCall.reply.body
        /\ lastCall.reply.kind = "response" /\ lastCall.reply.status # 200 =>
              /\ lastCall.raised
              /\ Contains(lastCall.message, IntToStr(lastCall.reply.status))
              /\ Contains(lastCall.message, <<lastCall.reply.body>>)

\* The bearer client was answered with status 201 and raised.
C19_Witness ==
    /\ lastCall.called /\ lastCall.strategy = "bearer"
    /\ lastCall.reply.status = 201 /\ lastCall.raised

\* C20: compress_image encodes the image once; exactly when the first
\* encoding is larger than 1000 KB it resizes the image to
\* (floor(0.75 w), floor(0.75 h)) and encodes once more, and what it returns
\* is that second encoding, of that image, whatever its size.
C20_CompressOnce ==
    lastCall.sent.encodes # 0 =>
        LET sent == lastCall.sent
        IN  /\ sent.encodes \in {1, 2}
            /\ sent.encodes = 2 <=> sent.first > SizeLimitKB * 1024
            /\ sent.encodes = 1 => sent.image = aiScreen /\ sent.bytes = sent.first
            /\ sent.encodes = 2 =>
                  /\ 4 * sent.image.w <= 3 * aiScreen.w
                  /\ 3 * aiScreen.w < 4 * sent.image.w + 4
                  /\ 4 * sent.image.h <= 3 * aiScreen.h
                  /\ 3 * aiScreen.h < 4 * sent.image.h + 4

\* A 1366x768 capture was resized to 1024x576 and its second encoding, still
\* above the limit, was returned.
C20_Witness ==
    /\ aiScreen = PrimarySize /\ lastCall.sent.encodes = 2
    /\ lastCall.sent.image = Img(1024, 576)
    /\ lastCall.sent.bytes > SizeLimitKB * 1024

Abs(n) == IF n < 0 THEN 0 - n ELSE n

\* C21: the thumbnail generate_thumbnail returns for an image of positive
\* width and height has the image's aspect ratio within 0.01:
\* |width/height - thumb_width/thumb_height| < 0.01, which for positive
\* heights is 100 * |width * thumb_height - thumb_width * height| <
\* height * thumb_height.
C21_AspectRatioPreserved ==
    testPc = "thumbnail" /\ thumbnail.kind = "image" =>
        100 * Abs(test_image.w * thumbnail.h - thumbnail.w * test_image.h)
            < test_image.h * thumbnail.h

\* C22: the thumbnail generate_thumbnail returns for an image of positive
\* width and height is at most 200 wide and at most 150 high.
C22_ThumbnailFits ==
    testPc = "thumbnail" /\ thumbnail.kind = "image" =>
        thumbnail.w <= 200 /\ thumbnail.h <= 150

\* An 800x600 image came back as a 200x150 thumbnail: both limits are met
\* with equality.
C22_Witness ==
    /\ testPc = "thumbnail" /\ test_image = Img(800, 600)
    /\ thumbnail = Img(200, 150)

\* C23: after store_screenshot(img) the stored value is a copy of img, or None
\* for None, whatever was stored before, and get_current_screenshot returns
\* it: an image of the size of img, or None.
C23_StoreGetRoundTrip ==
    /\ testPc \in {"stored", "retrieved"} =>
          IF test_image = None
          THEN current_screenshot = None
          ELSE /\ current_screenshot.kind = "image"
               /\ Dimensions(current_screenshot) = Dimensions(test_image)
    /\ testPc = "retrieved" =>
          IF test_image = None
          THEN stored_image = None
          ELSE /\ stored_image.kind = "image"
               /\ Dimensions(stored_image) = Dimensions(test_image)

\* A 1000x500 image was stored over something else and read back (the
\* retrieval before it had returned a 640x480 image or None).
C23_Witness ==
    /\ testPc = "retrieved" /\ test_image = Img(1000, 500)
    /\ stored_image = Img(1000, 500)

\* C30: for an image of positive width and height the size generate_thumbnail
\* asks resize for has width >= 1 and height >= 1.
C30_PositiveTargetSize ==
    testPc \in {"thumbnail", "aborted"} => new_size.w >= 1 /\ new_size.h >= 1

\* C24: the model is given only an image the user approved.  The analysis
\* thread starts only from an open approval window, which shows the most
\* recent capture of the cycle, and gets that image; while it runs, and when
\* the image is encoded and the client called, its image is still the most
\* recent capture of the cycle.  A Retake closes the window, starts no
\* analysis, sends nothing and queues a new capture.
C24_OnlyApprovedImageSent ==
    [][/\ (aiPc = "idle" /\ aiPc' # "idle") =>
              /\ approval_window # None
              /\ approval_window = cycleCapture
              /\ aiScreen' = approval_window
              /\ approval_window' = None
       /\ aiPc' # "idle" => aiScreen'.kind = "image" /\ aiScreen' = cycleCapture'
       /\ lastCall'.sent.encodes = 1 => lastCall'.sent.image = cycleCapture'
       /\ cycleInvokes' > cycleInvokes => aiScreen = cycleCapture /\ retakes' = retakes
       /\ retakes' > retakes =>
              /\ approval_window # None
              /\ approval_window' = None
              /\ aiPc' = "idle"
              /\ cycleInvokes' = cycleInvokes
              /\ lastCall' = lastCall
              /\ uiQueue' # <<>>
              /\ uiQueue'[Len(uiQueue')].cb = "analyze_screen_thread"]_vars

\* In the second cycle, after a Retake, the capture of the aggregate display
\* was approved, stored and encoded as it is.
C24_Witness ==
    /\ cycle = 2 /\ retakes >= 1 /\ aiPc = "invoke"
    /\ lastCall.sent.encodes = 1 /\ lastCall.sent.image = AggregateSize
    /\ cycleCapture = AggregateSize /\ current_screenshot = AggregateSize

\* C25: a capture that went through the fallback library returns the first
\* entry after the aggregate entry (monitors[1], the primary display) when the
\* library lists more than one entry, and the aggregate entry (monitors[0])
\* when it lists only that one.
C25_PrimaryMonitorElseAggregate ==
    /\ lastCapture.monitors \in {"two_monitors", "three_monitors"} =>
          lastCapture.screen = Img(1366, 768)
    /\ lastCapture.monitors = "one_monitor" =>
          lastCapture.screen = Img(2732, 768)

\* On macOS the permission dialog led to the fallback library, which listed
\* three entries; the capture returned the primary display.
C25_Witness ==
    /\ system = "darwin" /\ lastCapture.dialog
    /\ lastCapture.monitors = "three_monitors"
    /\ lastCapture.screen = Img(1366, 768)

\* C26: a cycle whose approval window is gone (closed with Retake, with
\* Analyze or by the window manager) still comes to its end: while analyzing
\* is true and no approval window is open, a worker is running or a callback
\* is queued, which is what leads to reset_ui setting analyzing to false and
\* enabling the button.
C26_ClosedApprovalEndsCycle ==
    analyzing /\ approval_window = None =>
        uiQueue # <<>> \/ capPc # "idle" \/ aiPc # "idle"

Queued(name) == {i \in 1..Len(uiQueue) : uiQueue[i].cb = name}

\* C27: the main window is visible whenever the orchestrator is Idle after a
\* cycle and whenever an approval window is shown; a queued withdraw is
\* followed in the queue by a deiconify, or the capture that will queue one is
\* still running, and the window is hidden only while that is so.
C27_MainWindowRestored ==
    /\ Idle /\ cycle > 0 => mainVisible
    /\ approval_window # None => mainVisible
    /\ \A i \in Queued("withdraw") :
          capPc # "idle" \/ \E j \in Queued("deiconify") : j > i
    /\ ~mainVisible => capPc # "idle" \/ Queued("deiconify") # {}

\* The approval window of a retaken capture is shown over the visible main
\* window, in a second cycle.
C27_Witness ==
    /\ approval_window # None /\ retakes >= 1 /\ cycle = 2 /\ mainVisible

\* C28: whenever a screenshot is stored and no viewer window is open, a click
\* on the thumbnail opens a viewer, however the viewers before it were
\* closed (Close button, Escape key, window manager).
C28_ClickOpensViewer ==
    current_screenshot # None /\ viewersOpen = 0 /\ uiPc = "idle" =>
        ENABLED (OnThumbnailClick /\ viewersOpen' = 1)

\* C29: at most one viewer window is open at any time; a click on the
\* thumbnail while a viewer is open, or while no screenshot is stored, changes
\* nothing.
C29_AtMostOneViewer ==
    /\ viewersOpen <= 1
    /\ (viewersOpen >= 1 \/ current_screenshot = None) /\ uiPc = "idle" =>
          ~ENABLED (OnThumbnailClick /\ vars' # vars)

\* A viewer opened on the capture of the primary display is still open after
\* a second cycle has stored a capture of the aggregate display.
C29_Witness ==
    /\ viewersOpen = 1 /\ viewer_window = PrimarySize
    /\ current_screenshot = AggregateSize /\ uiPc = "idle"

=============================================================================
